---- MODULE Spec2Model ----
(***************************************************************************)
(* django_mongodb_engine/base.py: the lazy connection state machine of     *)
(* DatabaseWrapper (__getattr__, _connect, _reconnect, close) and the      *)
(* DatabaseOperations helpers sql_flush, value_to_db_date/time and         *)
(* value_from_db.                                                          *)
(*                                                                         *)
(* A caller's position in the code is pc[t]; the call it is executing is   *)
(* op[t].  Driver outcomes (Connection() raising TypeError, authenticate   *)
(* returning False) are inputs drawn with \E at the step that calls the    *)
(* driver.  Driver connections are numbered in creation order.             *)
(***************************************************************************)
EXTENDS Integers, Sequences, FiniteSets, TLC

\* ------------------------------------------------------------------ bounds
NumThreads == 2
MaxHandles == 3
MaxTables == 2
MaxRows == 1

Threads == 1..NumThreads

\* ---------------------------------------------------------- Python values
\* An attribute that is not set on the instance (after `del self.connection`).
Absent == 0

Handles == 1..MaxHandles

\* The operation kinds named by _connect.
OperationKinds == {"save", "delete", "update"}

\* Keys and values an OPTIONS['OPERATIONS'] mapping is drawn from.
OperationKeys == OperationKinds \cup {"timeout"}
OperationValues == {5}
OperationMappings == UNION {[S -> OperationValues] : S \in SUBSET OperationKeys}

VARIABLES
    settings_dict,      \* self.settings_dict: [auth, operations]
    connected,          \* self.connected
    connection,         \* self.connection: a driver connection, or Absent
    database,           \* self.database: the connection it belongs to, or Absent
    operation_flags,    \* self.operation_flags
    pc,                 \* per caller: position in the code
    op,                 \* per caller: the call being executed
    attr,               \* per caller: the attribute being looked up
    outcome,            \* per caller: how its last call ended
    value,              \* per caller: the handle its last access returned
    nextHandle,         \* the next driver connection Connection() creates
    open,               \* driver connections created and not torn down
    notified,           \* connection_created signals sent
    connects,           \* times _connect set self.connected = True
    streak,             \* consecutive successful _reconnect calls (up to 2)
    before,             \* self.connection when the running _reconnect began
    rows,               \* the store: rows per collection
    rows0,              \* the store when the running sql_flush began
    tables,             \* sql_flush: its `tables` argument
    remaining,          \* sql_flush: tables the loop has not visited yet
    statements,         \* sql_flush: the list it returned
    cin,                \* codec: the value given
    cstored,            \* codec: value_to_db_*(cin)
    cout,               \* codec: value_from_db(cstored)
    cpc                 \* codec: position

wrapperVars == <<settings_dict, connected, connection, database, operation_flags>>
callVars == <<pc, op, attr, outcome, value>>
driverVars == <<nextHandle, open, notified, connects>>
historyVars == <<streak, before>>
flushVars == <<rows, rows0, tables, remaining, statements>>
codecVars == <<cin, cstored, cout, cpc>>
vars == <<wrapperVars, callVars, driverVars, historyVars, flushVars, codecVars>>


Min(a, b) == IF a < b THEN a ELSE b

\* -------------------------------------------------------------- _connect
\* Lines 194-198: self.operation_flags from OPTIONS['OPERATIONS'] (a missing
\* key pops as {}).  The mapping is broadcast to the three operation kinds
\* unless one of its keys is an operation kind.
\* Variant: `all` where line 195 has `any`.
BuildOperationFlagsAll(flags) ==
    IF ~(\A k \in DOMAIN flags : k \in OperationKinds)
    THEN [k \in OperationKinds |-> flags]
    ELSE flags

BuildOperationFlags(flags) ==
    IF ~(\E k \in DOMAIN flags : k \in OperationKinds)
    THEN [k \in OperationKinds |-> flags]
    ELSE flags

\* Line 205: Connection(host=host, port=port, **options) constructs a new
\* driver connection object; n numbers the objects constructed so far.
\* Variant: a connection object shared by every call.
ConnectionShared(n) == 1

Connection(n) == n

\* The control flow of _connect (lines 194-220): the step that follows the
\* step at `label` when the driver call made there succeeds (ok) or not.
\* "raise" leaves _connect with ImproperlyConfigured, "return" leaves it
\* normally.
\* Variant: a failed authenticate still reaches the signal of line 220.
ConnectFlowSendAlways(label, ok) ==
    CASE label = "c_flags" -> "c_conn"
      [] label = "c_conn"  -> IF ok THEN "c_db" ELSE "raise"
      [] label = "c_db"    -> IF ok THEN "c_auth" ELSE "raise"
      [] label = "c_auth"  -> IF ok THEN "c_set" ELSE "c_send"
      [] label = "c_set"   -> "c_send"
      [] label = "c_send"  -> "return"

ConnectFlow(label, ok) ==
    CASE label = "c_flags" -> "c_conn"
      [] label = "c_conn"  -> IF ok THEN "c_db" ELSE "raise"
      [] label = "c_db"    -> IF ok THEN "c_auth" ELSE "raise"
      [] label = "c_auth"  -> IF ok THEN "c_set" ELSE "raise"
      [] label = "c_set"   -> "c_send"
      [] label = "c_send"  -> "return"

\* ------------------------------------------------------------ _reconnect
\* Lines 223-226: the wrapper's fields after the `if self.connected:` block.
\* Variant: line 226 missing.
ReconnectTeardownKeepsFlag(w) ==
    IF w.connected
    THEN [connected |-> TRUE, connection |-> Absent, database |-> Absent]
    ELSE w

ReconnectTeardown(w) ==
    IF w.connected
    THEN [connected |-> FALSE, connection |-> Absent, database |-> Absent]
    ELSE w

\* ---------------------------------------------------------------- sql_flush
\* Collection names as sequences of characters.
Users == <<"u", "s", "e", "r", "s">>
SystemIndexes == <<"s", "y", "s", "t", "e", "m", ".", "i", "n", "d", "e", "x", "e", "s">>
SystemDot == <<"s", "y", "s", "t", "e", "m", ".">>
Systems == <<"s", "y", "s", "t", "e", "m", "s">>
TableNames == {Users, SystemIndexes, Systems}

\* str.startswith
StartsWith(s, prefix) ==
    /\ Len(s) >= Len(prefix)
    /\ SubSeq(s, 1, Len(prefix)) = prefix

\* Line 56: table.startswith('system.')
\* Variant: the prefix without its dot.
IsSystemTableNoDot(table) == StartsWith(table, <<"s", "y", "s", "t", "e", "m">>)

IsSystemTable(table) == StartsWith(table, SystemDot)

\* Line 59: Collection.remove() with no criteria removes every row.
Remove(store, table) == [store EXCEPT ![table] = 0]

TableLists == UNION {[1..n -> TableNames] : n \in 0..MaxTables}
Stores == [TableNames -> 0..MaxRows]

\* ------------------------------------------------------- calls and returns
\* A call ends: normally ("returned", with v for an attribute access) or
\* with an exception.
Finish(t, how, v) ==
    /\ pc' = [pc EXCEPT ![t] = "idle"]
    /\ outcome' = [outcome EXCEPT ![t] = how]
    /\ value' = [value EXCEPT ![t] = v]
    /\ streak' = IF op[t] = "reconnect" /\ how = "returned"
                 THEN Min(streak + 1, 2) ELSE 0
    /\ before' = IF op[t] = "reconnect" /\ how = "returned"
                 THEN before ELSE Absent

Goto(t, label) ==
    /\ pc' = [pc EXCEPT ![t] = label]
    /\ UNCHANGED <<outcome, value, streak, before>>

\* An exception leaves _connect and propagates out of the running call.
Raise(t, exc) ==
    /\ Finish(t, exc, Absent)
    /\ remaining' = <<>>
    /\ UNCHANGED <<rows, rows0, tables, statements>>

\* Where a step of _connect goes next.
ConnectGoto(t, label, ok) ==
    LET next == ConnectFlow(label, ok) IN
    IF next = "raise" THEN Raise(t, "ImproperlyConfigured")
    ELSE IF next = "return"
    THEN IF op[t] = "reconnect"
         THEN Finish(t, "returned", Absent) /\ UNCHANGED flushVars
         ELSE Goto(t, "lookup") /\ UNCHANGED flushVars    \* line 180
    ELSE Goto(t, next) /\ UNCHANGED flushVars

\* ---------------------------------------------------- DatabaseWrapper steps
\* A caller reads wrapper.connection or wrapper.database.
Access(t) ==
    /\ pc[t] = "idle"
    /\ nextHandle <= MaxHandles
    /\ \E a \in {"connection", "database"} :
          attr' = [attr EXCEPT ![t] = a]
    /\ op' = [op EXCEPT ![t] = "access"]
    /\ pc' = [pc EXCEPT ![t] = "lookup"]
    /\ outcome' = [outcome EXCEPT ![t] = "none"]
    /\ value' = [value EXCEPT ![t] = Absent]
    /\ UNCHANGED <<wrapperVars, driverVars, historyVars, flushVars, codecVars>>

\* Python's attribute lookup: an attribute set on the instance is returned
\* as it is; only a missing one reaches __getattr__ (line 176).  For
\* sql_flush the attribute read is line 59's self.connection.database,
\* followed by [table].remove().
Lookup(t) ==
    /\ pc[t] = "lookup"
    /\ LET v == IF attr[t] = "connection" THEN connection ELSE database IN
       IF v = Absent
       THEN Goto(t, "getattr") /\ UNCHANGED flushVars
       ELSE IF op[t] = "flush"
       THEN /\ rows' = Remove(rows, Head(remaining))
            /\ remaining' = Tail(remaining)
            /\ Goto(t, "f_loop")
            /\ UNCHANGED <<rows0, tables, statements>>
       ELSE Finish(t, "returned", v) /\ UNCHANGED flushVars
    /\ UNCHANGED <<wrapperVars, op, attr, driverVars, codecVars>>

\* Lines 177-179: __getattr__ asserts and calls _connect.
GetAttr(t) ==
    /\ pc[t] = "getattr"
    /\ IF connected
       THEN Raise(t, "AssertionError")
       ELSE Goto(t, "c_flags") /\ UNCHANGED flushVars
    /\ UNCHANGED <<wrapperVars, op, attr, driverVars, codecVars>>

\* Lines 184-198.
ConnectFlags(t) ==
    /\ pc[t] = "c_flags"
    /\ operation_flags' = BuildOperationFlags(settings_dict.operations)
    /\ ConnectGoto(t, "c_flags", TRUE)
    /\ UNCHANGED <<settings_dict, connected, connection, database, op, attr,
                   driverVars, codecVars>>

\* Line 205, and lines 207-209 when the driver raises TypeError.
ConnectOpen(t) ==
    /\ pc[t] = "c_conn"
    /\ \E ok \in BOOLEAN :
         /\ IF ok
            THEN /\ connection' = Connection(nextHandle)
                 /\ nextHandle' = nextHandle + 1
                 /\ open' = open \cup {Connection(nextHandle)}
            ELSE UNCHANGED <<connection, nextHandle, open>>
         /\ ConnectGoto(t, "c_conn", ok)
    /\ UNCHANGED <<settings_dict, connected, database, operation_flags, op, attr,
                   notified, connects, codecVars>>

\* Line 206, and lines 207-209 when the driver raises TypeError.
ConnectSelect(t) ==
    /\ pc[t] = "c_db"
    /\ \E ok \in BOOLEAN :
         /\ database' = IF ok THEN connection ELSE database
         /\ ConnectGoto(t, "c_db", ok)
    /\ UNCHANGED <<settings_dict, connected, connection, operation_flags, op, attr,
                   driverVars, codecVars>>

\* Lines 211-213: authenticate only when user and password are both set.
ConnectAuth(t) ==
    /\ pc[t] = "c_auth"
    /\ \E ok \in (IF settings_dict.auth THEN BOOLEAN ELSE {TRUE}) :
         ConnectGoto(t, "c_auth", ok)
    /\ UNCHANGED <<wrapperVars, op, attr, driverVars, codecVars>>

\* Line 219.
ConnectSet(t) ==
    /\ pc[t] = "c_set"
    /\ connected' = TRUE
    /\ connects' = connects + 1
    /\ ConnectGoto(t, "c_set", TRUE)
    /\ UNCHANGED <<settings_dict, connection, database, operation_flags, op, attr,
                   nextHandle, open, notified, codecVars>>

\* Line 220.
ConnectSend(t) ==
    /\ pc[t] = "c_send"
    /\ notified' = notified + 1
    /\ ConnectGoto(t, "c_send", TRUE)
    /\ UNCHANGED <<wrapperVars, op, attr, nextHandle, open, connects, codecVars>>

\* Lines 222-227, up to the call of _connect.
Reconnect(t) ==
    /\ pc[t] = "idle"
    /\ nextHandle <= MaxHandles
    /\ LET w == ReconnectTeardown([connected |-> connected,
                                   connection |-> connection,
                                   database |-> database]) IN
         /\ connected' = w.connected
         /\ connection' = w.connection
         /\ database' = w.database
    /\ before' = connection
    /\ op' = [op EXCEPT ![t] = "reconnect"]
    /\ pc' = [pc EXCEPT ![t] = "c_flags"]
    /\ outcome' = [outcome EXCEPT ![t] = "none"]
    /\ value' = [value EXCEPT ![t] = Absent]
    /\ UNCHANGED <<settings_dict, operation_flags, attr, driverVars, streak,
                   flushVars, codecVars>>

\* Lines 235-236: close() does nothing.
Close(t) ==
    /\ pc[t] = "idle"
    /\ op' = [op EXCEPT ![t] = "close"]
    /\ outcome' = [outcome EXCEPT ![t] = "returned"]
    /\ value' = [value EXCEPT ![t] = Absent]
    /\ streak' = 0
    /\ before' = Absent
    /\ UNCHANGED pc
    /\ UNCHANGED <<wrapperVars, attr, driverVars, flushVars, codecVars>>


\* --------------------------------------------------- DatabaseOperations
\* Line 49: sql_flush(style, tables, sequence_list) is called.
FlushStart(t) ==
    /\ pc[t] = "idle"
    /\ nextHandle <= MaxHandles
    /\ \E l \in TableLists :
         /\ tables' = l
         /\ remaining' = l
    /\ rows0' = rows
    /\ statements' = <<"unset">>
    /\ op' = [op EXCEPT ![t] = "flush"]
    /\ attr' = [attr EXCEPT ![t] = "database"]
    /\ pc' = [pc EXCEPT ![t] = "f_loop"]
    /\ outcome' = [outcome EXCEPT ![t] = "none"]
    /\ value' = [value EXCEPT ![t] = Absent]
    /\ UNCHANGED <<wrapperVars, driverVars, historyVars, rows, codecVars>>

\* Lines 55-60: one turn of the loop, up to the read of the wrapper's
\* database attribute; after the loop, return [].
FlushLoop(t) ==
    /\ pc[t] = "f_loop"
    /\ IF remaining = <<>>
       THEN /\ statements' = <<>>
            /\ Finish(t, "returned", Absent)
            /\ UNCHANGED <<rows, rows0, tables, remaining>>
       ELSE IF IsSystemTable(Head(remaining))
       THEN /\ remaining' = Tail(remaining)
            /\ Goto(t, "f_loop")
            /\ UNCHANGED <<rows, rows0, tables, statements>>
       ELSE /\ Goto(t, "lookup")
            /\ UNCHANGED flushVars
    /\ UNCHANGED <<wrapperVars, op, attr, driverVars, codecVars>>

\* ------------------------------------------------------- the date codec
\* Python objects of the codec, tagged with their type.
PyNone == [type |-> "NoneType"]
PyInt(n) == [type |-> "int", v |-> n]
PyDate(y, m, d) == [type |-> "date", year |-> y, month |-> m, day |-> d]
PyTime(h, mi, s, us) ==
    [type |-> "time", hour |-> h, minute |-> mi, second |-> s, microsecond |-> us]
PyDatetime(y, m, d, h, mi, s, us) ==
    [type |-> "datetime", year |-> y, month |-> m, day |-> d,
     hour |-> h, minute |-> mi, second |-> s, microsecond |-> us]
PyTypeError == [type |-> "TypeError"]

\* Line 22: `from datetime import datetime` binds the name datetime to the
\* class datetime.datetime.  datetime.date and datetime.time, looked up on
\* that class, are its instance methods date() and time(): called through
\* the class they take the instance as their only argument and raise
\* TypeError for anything else.
DatetimeDotDate(args) ==
    IF Len(args) = 1 /\ args[1].type = "datetime"
    THEN PyDate(args[1].year, args[1].month, args[1].day)
    ELSE PyTypeError

DatetimeDotTime(args) ==
    IF Len(args) = 1 /\ args[1].type = "datetime"
    THEN PyTime(args[1].hour, args[1].minute, args[1].second, args[1].microsecond)
    ELSE PyTypeError

\* Lines 62-65.
value_to_db_date(v) ==
    IF v = PyNone THEN PyNone
    ELSE PyDatetime(v.year, v.month, v.day, 0, 0, 0, 0)

\* Lines 67-71.
value_to_db_time(v) ==
    IF v = PyNone THEN PyNone
    ELSE PyDatetime(1, 1, 1, v.hour, v.minute, v.second, v.microsecond)

\* Lines 117-141 for db_type 'date' and 'time'.  An exception raised at
\* line 134 or 137 leaves the function before line 140.
value_from_db(v, db_type) ==
    IF v = PyNone THEN PyNone
    ELSE IF db_type = "date"
    THEN DatetimeDotDate(<<PyInt(v.year), PyInt(v.month), PyInt(v.day)>>)
    ELSE IF db_type = "time"
    THEN DatetimeDotTime(<<PyInt(v.hour), PyInt(v.minute), PyInt(v.second),
                           PyInt(v.microsecond)>>)
    ELSE v

DateValues == {PyDate(y, m, d) : y \in {1, 2024, 9999}, m \in 1..12, d \in {1, 15, 28}}
TimeValues == {PyTime(h, mi, s, us) :
                  h \in {0, 12, 23}, mi \in {0, 59}, s \in {0, 59}, us \in {0, 999999}}
CodecInputs == [v : DateValues \cup {PyNone}, db_type : {"date"}]
               \cup [v : TimeValues \cup {PyNone}, db_type : {"time"}]
NoInput == [v |-> PyNone, db_type |-> "none"]

\* The mapper converts a field value for storage.
ToDb ==
    /\ cpc = "given"
    /\ cstored' = IF cin.db_type = "date"
                  THEN value_to_db_date(cin.v) ELSE value_to_db_time(cin.v)
    /\ cpc' = "stored"
    /\ UNCHANGED <<cin, cout, wrapperVars, callVars, driverVars, historyVars, flushVars>>

\* The mapper reads the stored value back.
FromDb ==
    /\ cpc = "stored"
    /\ cout' = value_from_db(cstored, cin.db_type)
    /\ cpc' = "read"
    /\ UNCHANGED <<cin, cstored, wrapperVars, callVars, driverVars, historyVars, flushVars>>

\* ------------------------------------------------------- specifications
\* Lines 156-166: the wrapper after __init__, no caller inside a call.
InitWith(settings, stores, inputs) ==
    /\ settings_dict \in settings
    /\ connected = FALSE
    /\ connection = Absent
    /\ database = Absent
    /\ operation_flags = <<>>
    /\ pc = [t \in Threads |-> "idle"]
    /\ op = [t \in Threads |-> "none"]
    /\ attr = [t \in Threads |-> "connection"]
    /\ outcome = [t \in Threads |-> "none"]
    /\ value = [t \in Threads |-> Absent]
    /\ nextHandle = 1
    /\ open = {}
    /\ notified = 0
    /\ connects = 0
    /\ streak = 0
    /\ before = Absent
    /\ rows \in stores
    /\ rows0 = rows
    /\ tables = <<>>
    /\ remaining = <<>>
    /\ statements = <<"unset">>
    /\ cin \in inputs
    /\ cstored = PyNone
    /\ cout = PyNone
    /\ cpc = IF cin = NoInput THEN "none" ELSE "given"

AllSettings == [auth : BOOLEAN, operations : OperationMappings]
PlainSettings == [auth : BOOLEAN, operations : {<<>>}]
EmptyStore == [n \in TableNames |-> 0]

\* The steps inside __getattr__ and _connect, shared by every call.
ConnectStep(t) ==
    \/ Lookup(t)
    \/ GetAttr(t)
    \/ ConnectFlags(t)
    \/ ConnectOpen(t)
    \/ ConnectSelect(t)
    \/ ConnectAuth(t)
    \/ ConnectSet(t)
    \/ ConnectSend(t)

\* One caller: attribute accesses, _reconnect and close in any order.
Init == InitWith(AllSettings, {EmptyStore}, {NoInput})
Next ==
    \/ Access(1)
    \/ Reconnect(1)
    \/ Close(1)
    \/ ConnectStep(1)
Spec == Init /\ [][Next]_vars

\* Callers sharing the wrapper, each making its first access.
FirstAccess(t) ==
    /\ op[t] = "none"
    /\ Access(t)

InitConc == InitWith(PlainSettings, {EmptyStore}, {NoInput})
NextConc ==
    \E t \in Threads :
        \/ FirstAccess(t)
        \/ ConnectStep(t)
SpecConc == InitConc /\ [][NextConc]_vars

\* One caller flushing lists of tables of a store with any contents.
InitFlush == InitWith(PlainSettings, Stores, {NoInput})
NextFlush ==
    \/ FlushStart(1)
    \/ FlushLoop(1)
    \/ ConnectStep(1)
SpecFlush == InitFlush /\ [][NextFlush]_vars

\* Dates and times through the codec.
InitCodec == InitWith({[auth |-> FALSE, operations |-> <<>>]}, {EmptyStore}, CodecInputs)
NextCodec ==
    \/ ToDb
    \/ FromDb
SpecCodec == InitCodec /\ [][NextCodec]_vars

\* ---------------------------------------------------------------- claims
AllIdle == \A t \in Threads : pc[t] = "idle"

\* C1: when the callers sharing one wrapper have each made their first
\* access concurrently and each got a handle, exactly one driver connection
\* has been created and they all got the same handle.
C1_SingleConnection ==
    (AllIdle /\ \A t \in Threads : op[t] = "access" /\ outcome[t] = "returned")
        => /\ Cardinality(open) = 1
           /\ \A s, t \in Threads : value[s] = value[t]

\* C2: an access made while the wrapper is not connected goes through
\* __getattr__ into _connect; it never ends at the attribute lookup.
C2_DisconnectedAccessConnects ==
    [][\A t \in Threads :
         (pc[t] = "lookup" /\ op[t] = "access" /\ ~connected /\ pc'[t] # "lookup")
             => pc'[t] = "getattr"]_vars

\* C3: after two successful _reconnect calls in a row the wrapper is
\* connected (as it is after the first), and the handle the second call
\* installed is newly created and is not the one the first installed.
C3_ReconnectTwice ==
    AllIdle =>
        /\ streak >= 1 => connected
        /\ streak = 2 =>
             /\ before # Absent
             /\ connection # Absent
             /\ connection # before
             /\ database # before
             /\ connection = nextHandle - 1

C3_Witness ==
    /\ AllIdle
    /\ streak = 2
    /\ op[1] = "reconnect"
    /\ outcome[1] = "returned"

\* C4: a connect attempt that ended with ImproperlyConfigured leaves the
\* wrapper not connected and without connection or database handle.
C4_FailureLeavesNoHandle ==
    \A t \in Threads :
        (pc[t] = "idle" /\ outcome[t] = "ImproperlyConfigured")
            => /\ ~connected
               /\ connection = Absent
               /\ database = Absent

\* C5: after a successful _reconnect has replaced the handle installed by
\* the successful _reconnect before it, the replaced driver connection is no
\* longer open and at most one connection created by the wrapper is open.
C5_OneOpenConnection ==
    (AllIdle /\ streak = 2)
        => /\ Cardinality(open) <= 1
           /\ before \notin open

\* C6: one connection_created signal per successful connect and none for a
\* failed one: the signal is sent only once self.connected is True, and
\* between calls the signals sent equal the connects that succeeded.
C6_OneSignalPerConnect ==
    /\ notified <= connects
    /\ connects <= notified + 1
    /\ \A t \in Threads :
         pc[t] = "c_send" => (connected /\ connects = notified + 1)
    /\ AllIdle => notified = connects

C6_Witness ==
    /\ AllIdle
    /\ notified = 2
    /\ connects = 2
    /\ nextHandle = 4
    /\ outcome[1] = "ImproperlyConfigured"

\* C7: the flag map a connect attempt builds: a mapping naming none of save,
\* delete, update is the value of each of the three; a mapping naming one
\* of them is kept as given, with no key added.
FlagsBuilt ==
    \E t \in Threads : pc[t] \in {"c_conn", "c_db", "c_auth", "c_set", "c_send"}

C7_OperationFlags ==
    FlagsBuilt =>
        LET given == settings_dict.operations IN
        IF DOMAIN given \cap {"save", "delete", "update"} = {}
        THEN /\ DOMAIN operation_flags = {"save", "delete", "update"}
             /\ operation_flags["save"] = given
             /\ operation_flags["delete"] = given
             /\ operation_flags["update"] = given
        ELSE /\ DOMAIN operation_flags = DOMAIN given
             /\ \A k \in DOMAIN given : operation_flags[k] = given[k]

C7_Witness ==
    /\ FlagsBuilt
    /\ DOMAIN settings_dict.operations = {"save", "timeout"}
    /\ DOMAIN operation_flags = {"save", "timeout"}

\* C8: a sql_flush that returned has emptied every table of its list whose
\* name does not start with 'system.', has left every other table as it
\* was, and has returned the empty list; one that raised has changed no
\* table.
SystemPrefixed == {SystemIndexes}
Named(list) == {list[i] : i \in DOMAIN list}

C8_FlushFrame ==
    \A t \in Threads :
        (pc[t] = "idle" /\ op[t] = "flush") =>
            IF outcome[t] = "returned"
            THEN /\ \A n \in TableNames :
                      rows[n] = IF n \in Named(tables) /\ n \notin SystemPrefixed
                                THEN 0 ELSE rows0[n]
                 /\ statements = <<>>
            ELSE rows = rows0

C8_Witness ==
    /\ pc[1] = "idle"
    /\ op[1] = "flush"
    /\ outcome[1] = "returned"
    /\ tables = <<Systems, SystemIndexes>>
    /\ rows0 = [n \in TableNames |-> 1]
    /\ rows[Systems] = 0
    /\ rows[SystemIndexes] = 1
    /\ rows[Users] = 1

\* C9: a date, or a time, converted for storage and read back with its
\* db_type is the value that was given.
C9_RoundTrip ==
    cpc = "read" => cout = cin.v

\* C10: with one caller, self.connected implies that connection and
\* database are both set, and the assertion of __getattr__ never fails.
C10_ConnectedHasHandles ==
    /\ connected => (connection # Absent /\ database # Absent)
    /\ \A t \in Threads : outcome[t] # "AssertionError"

C10_Witness ==
    /\ connected
    /\ pc[1] = "idle"
    /\ op[1] = "access"
    /\ outcome[1] = "returned"
    /\ value[1] = 3
    /\ connects = 2

====
